---- MODULE Spec2Model ----
(***************************************************************************)
(* Model of the certificate watchers of controller-manager-library:        *)
(*   pkg/certmgmt/certificate.go   UpdateCertificate, IsValid, Valid       *)
(*   pkg/certs/access/access.go    AccessSource (polling watcher) and      *)
(*                                 CertWatcher (file watcher)              *)
(* One watcher instance is modelled per behaviour; the variable "variant"  *)
(* says which of the two it is.                                            *)
(***************************************************************************)
EXTENDS Integers, Sequences, FiniteSets, TLC

(***************************************************************************)
(* Bounds of the model.                                                    *)
(***************************************************************************)
\* the clock runs from 0 to MaxTime (minutes)
MaxTime == 2
\* number of RSA keys that can be generated in one behaviour
MaxKeys == 6
\* consecutive failed refresh cycles the environment causes in Spec
MaxFail == 2
\* consecutive failed refresh cycles the environment causes in SpecOutage
LongOutage == 57
\* capacity of the notification queue between the kernel and the event loop
MaxEvents == 2

(***************************************************************************)
(* time.Duration: a signed 64 bit count of nanoseconds, kept as four       *)
(* 16 bit limbs, least significant first, in two's complement.  The same   *)
(* operators work on longer limb sequences, which the exact (unbounded)    *)
(* reference values use.                                                   *)
(***************************************************************************)
Base == 65536
HalfBase == 32768

\* n as a limb sequence of length len (0 <= n < 2^31)
RECURSIVE FromNat(_, _)
FromNat(n, len) ==
    IF len = 0 THEN << >> ELSE << n % Base >> \o FromNat(n \div Base, len - 1)

\* x * m + c truncated to Len(x) limbs (0 <= m <= 1000)
RECURSIVE MulSmall(_, _, _)
MulSmall(x, m, c) ==
    IF x = << >> THEN << >>
    ELSE LET p == Head(x) * m + c
         IN  << p % Base >> \o MulSmall(Tail(x), m, p \div Base)

IsNeg(x) == x[Len(x)] >= HalfBase

\* two's complement negation
Neg(x) == MulSmall([i \in 1..Len(x) |-> Base - 1 - x[i]], 1, 1)

\* logical shift right by one bit
Shr1(x) ==
    [i \in 1..Len(x) |->
        (x[i] \div 2) + (IF i < Len(x) THEN (x[i + 1] % 2) * HalfBase ELSE 0)]

\* Go's signed x / 2, which truncates toward zero
Div2(x) == IF IsNeg(x) THEN Neg(Shr1(Neg(x))) ELSE Shr1(x)

\* backoff * 3 / 2 in int64 arithmetic: the product wraps, then is divided
NextBackoff(b) == Div2(MulSmall(b, 3, 0))

Zero64 == FromNat(0, 4)
Second == FromNat(1000000000, 4)
Minute == MulSmall(Second, 60, 0)
\* a whole number of minutes as a time.Duration
Minutes(m) == MulSmall(Minute, m, 0)

(***************************************************************************)
(* PEM blobs.  A blob is absent (nil), unparsable, an RSA private key or a  *)
(* certificate.  id is the key (of a key blob) or the public                *)
(* key (of a certificate); by is the key that signed the certificate;      *)
(* nb and na are NotBefore and NotAfter in minutes; dns is the DNS name.   *)
(***************************************************************************)
Blob(t, id, by, nb, na, dns) ==
    [t |-> t, id |-> id, by |-> by, nb |-> nb, na |-> na, dns |-> dns]
NilBlob == Blob("nil", 0, 0, 0, 0, "")
BadBlob == Blob("bad", 0, 0, 0, 0, "")
KeyPEM(id) == Blob("key", id, 0, 0, 0, "")
CertPEM(pub, by, nb, na, dns) == Blob("cert", pub, by, nb, na, dns)

\* len(blob) == 0 (an absent blob; the stores and files of the model hold
\* no blob of length zero that is not nil)
IsEmpty(b) == b.t = "nil"

\* certmgmt.info; isnil marks the nil CertificateInfo
Info(c, k, cac, cak) ==
    [isnil |-> FALSE, cert |-> c, key |-> k, cacert |-> cac, cakey |-> cak]
NilInfo ==
    [isnil |-> TRUE, cert |-> NilBlob, key |-> NilBlob,
     cacert |-> NilBlob, cakey |-> NilBlob]

\* validity of a CA made by cert.NewSelfSignedCACert: ten years, in minutes
TenYears == 5256000
\* the lookahead of the CA's self check: 5*time.Hour*24, in minutes
FiveDays == 7200
\* the cap of the refresh interval: 10*time.Minute, in minutes
TenMinutes == 10

(***************************************************************************)
(* certmgmt.Config                                                         *)
(***************************************************************************)
Configs ==
    [CommonName : {"svc"}, DnsNames : {<< "svc" >>},
     Rest : {1, 60}, Validity : {2, 62}]

(***************************************************************************)
(* Certificate engine                                                      *)
(***************************************************************************)
\* tls.X509KeyPair: both blobs parse and the key is the certificate's key
X509KeyPairNoMatch(cert, key) == cert.t = "cert" /\ key.t = "key"
X509KeyPair(cert, key) ==
    cert.t = "cert" /\ key.t = "key" /\ cert.id = key.id

\* the parsed tls.Certificate: the pair that was parsed together
TLSCert(cert, key) == [cert |-> cert, key |-> key]
NilCert == TLSCert(NilBlob, NilBlob)

\* x509 Certificate.Verify of c against the pool made of cacert at time t
Verify(c, cacert, dnsname, t) ==
    /\ c.nb <= t /\ t <= c.na
    /\ (dnsname # "" => c.dns = dnsname)
    /\ \/ c = cacert
       \/ /\ c.by = cacert.id
          /\ cacert.nb <= t /\ t <= cacert.na

Valid(key, cert, cacert, dnsname, duration, now) ==
    /\ ~(IsEmpty(cert) \/ IsEmpty(key) \/ IsEmpty(cacert))
    /\ X509KeyPair(cert, key)
    /\ cacert.t = "cert"
    /\ Verify(cert, cacert, dnsname, now + duration)

IsValid(info, dnsname, duration, now) ==
    /\ ~(info.cert = NilBlob \/ info.key = NilBlob)
    /\ info.cacert # NilBlob
    /\ Valid(info.key, info.cert, info.cacert, dnsname, duration, now)

\* NewSignedCert: the leaf for key id pub signed by caCert's key
NewSignedCertEndsNow(cfg, pub, caCert, duration, now) ==
    IF Len(cfg.CommonName) = 0
    THEN [err |-> TRUE, cert |-> NilBlob]
    ELSE [err |-> FALSE,
          cert |-> CertPEM(pub, caCert.id, caCert.nb, now, cfg.DnsNames[1])]
NewSignedCert(cfg, pub, caCert, duration, now) ==
    IF Len(cfg.CommonName) = 0
    THEN [err |-> TRUE, cert |-> NilBlob]
    ELSE [err |-> FALSE,
          cert |-> CertPEM(pub, caCert.id, caCert.nb, now + duration,
                           cfg.DnsNames[1])]

\* lines 110-127: the CA of the old bundle is kept: it is present, valid
\* against itself five days from now, and its key and certificate parse
CAUsable(old, now) ==
    /\ old.cacert # NilBlob
    /\ Valid(old.cakey, old.cacert, old.cacert, "", FiveDays, now)
    /\ old.cakey.t = "key"
    /\ old.cacert.t = "cert"

\* UpdateCertificate(old, cfg) at time now; fresh is the number of keys
\* generated so far and rndOk says whether key generation succeeds.
\* same is TRUE when the returned value is the argument itself (old).
\* reuse is the outcome of lines 110-127.
UpdateWith(old, cfg, now, fresh, rndOk, reuse) ==
    LET new == IF ~old.isnil THEN [old EXCEPT !.isnil = FALSE]
               ELSE [NilInfo EXCEPT !.isnil = FALSE]
        caId == IF reuse THEN new.cakey.id ELSE fresh + 1
        used == IF reuse THEN 1 ELSE 2
        caKeyPEM == IF reuse THEN new.cakey ELSE KeyPEM(caId)
        caCert == IF reuse THEN new.cacert
                  ELSE CertPEM(caId, caId, now, now + TenYears, "")
        keyId == fresh + used
        signed == NewSignedCert(cfg, keyId, caCert, cfg.Validity, now)
    IN  IF IsValid(new, cfg.DnsNames[1], cfg.Rest, now)
        THEN [err |-> FALSE, same |-> TRUE, info |-> old, used |-> 0]
        ELSE IF ~rndOk \/ signed.err
        THEN [err |-> TRUE, same |-> FALSE, info |-> NilInfo, used |-> 0]
        ELSE [err |-> FALSE, same |-> FALSE,
              info |-> Info(signed.cert, KeyPEM(keyId), caCert, caKeyPEM),
              used |-> used]

UpdateCertificateKeepsCA(old, cfg, now, fresh, rndOk) ==
    UpdateWith(old, cfg, now, fresh, rndOk, old.cacert.t = "cert")
UpdateCertificate(old, cfg, now, fresh, rndOk) ==
    UpdateWith(old, cfg, now, fresh, rndOk, CAUsable(old, now))

(***************************************************************************)
(* State                                                                   *)
(***************************************************************************)
VARIABLES
    variant,     \* "poll": AccessSource, "file": CertWatcher, "engine":
                 \* UpdateCertificate called on its own
    cfg,         \* AccessSource.config
    now,         \* the wall clock, in minutes
    nextKey,     \* number of RSA keys generated so far
    stop,        \* the cancellation signal (ctx.Done()) has been raised
    currentCert, \* the watcher's currentCert; NilCert is the nil pointer
    lock,        \* holder of the watcher's mutex: "free", "refresh", "reader"
    newpc,       \* position of the call of New
    loop,        \* position of the background goroutine (watch)
    rc,          \* position inside ReadCertificate
    rpc,         \* position of a caller of GetCertificate
    got,         \* << c >> once a GetCertificate call has returned c
    store,       \* content of the external store behind CertificateAccess
    info,        \* ReadCertificate's local info
    newInfo,     \* ReadCertificate's local new
    cert,        \* ReadCertificate's local cert
    err,         \* the error returned by the last ReadCertificate call
    backoff,     \* watch's local backoff
    timerD,      \* the duration the timer was last set to
    timerArmed,  \* the timer is running
    timerC,      \* a tick is waiting in timer.C
    fails,       \* consecutive failed refresh cycles of the loop so far
    outage,      \* consecutive failed cycles the environment can cause
    cyc,         \* what the current (or last) ReadCertificate call did
    before,      \* currentCert when that call started
    lastSet,     \* the bundle passed to the last successful store Set
    certFile,    \* content of the file at certPath; NilBlob: no such file
    keyFile,     \* content of the file at keyPath
    certBytes,   \* LoadX509KeyPair's local: the bytes read from certPath
    watcher,     \* the fsnotify.Watcher has been created
    watched,     \* the paths the fsnotify.Watcher has a watch on
    closed,      \* the fsnotify.Watcher has been closed
    events       \* notifications waiting for the event loop

pollVars == << store, info, newInfo, backoff, timerD, timerArmed, timerC,
               fails, lastSet >>

fileVars == << certFile, keyFile, certBytes, watcher, watched, closed,
               events >>

\* get, set, parse, lock: calls of store Get, store Set, X509KeyPair and
\* Lock; fetched: the bundle Get returned; changed: whether UpdateCertificate
\* returned another value than its argument; read: the two files' contents
\* as tls.LoadX509KeyPair read them; peek: the holder of the mutex when
\* line 63 read currentCert
NoCycle ==
    [get |-> 0, set |-> 0, parse |-> 0, lock |-> 0, fetched |-> << >>,
     changed |-> "unknown", read |-> << >>, peek |-> << >>]

\* the bundle a previous run of this program left in the store at time 0
Issued(c) == UpdateCertificate(NilInfo, c, 0, 0, TRUE).info
\* the same with a server certificate that is past its NotAfter
Stale(b) == [b EXCEPT !.cert.na = 0]
\* the same with a CA key that does not parse
BadCAKey(b) == [b EXCEPT !.cakey = BadBlob]

InitStores(c) ==
    {NilInfo, Issued(c), Stale(Issued(c)), BadCAKey(Stale(Issued(c)))}

InitCommon ==
    /\ now = 0
    /\ nextKey = 2
    /\ stop = FALSE
    /\ currentCert = NilCert
    /\ lock = "free"
    /\ newpc = "init"
    /\ loop = "none"
    /\ rc = "idle"
    /\ rpc = "idle"
    /\ got = << >>
    /\ info = NilInfo
    /\ newInfo = NilInfo
    /\ cert = NilCert
    /\ err = FALSE
    /\ backoff = Zero64
    /\ timerD = Zero64
    /\ timerArmed = FALSE
    /\ timerC = FALSE
    /\ fails = 0
    /\ cyc = NoCycle
    /\ before = NilCert
    /\ lastSet = NilInfo

\* the certificates and keys the files can hold: pair i is cert i and key i
FileCert(i) == CertPEM(i, i, 0, TenYears, "svc")
FileCerts == {FileCert(1), FileCert(2)}
FileKeys == {KeyPEM(1), KeyPEM(2)}
Paths == {"certPath", "keyPath"}

InitNoFiles ==
    /\ certFile = NilBlob
    /\ keyFile = NilBlob
    /\ certBytes = NilBlob
    /\ watcher = FALSE
    /\ watched = {}
    /\ closed = FALSE
    /\ events = << >>

InitPoll ==
    /\ variant = "poll"
    /\ cfg \in Configs
    /\ store \in InitStores(cfg)
    /\ outage = MaxFail
    /\ InitCommon
    /\ InitNoFiles

InitFile ==
    /\ variant = "file"
    /\ cfg = CHOOSE c \in Configs : TRUE
    /\ store = NilInfo
    /\ outage = 0
    /\ InitCommon
    /\ certFile \in FileCerts \cup {NilBlob}
    /\ keyFile \in FileKeys \cup {NilBlob}
    /\ certBytes = NilBlob
    /\ watcher = FALSE
    /\ watched = {}
    /\ closed = FALSE
    /\ events = << >>

(***************************************************************************)
(* AccessSource: New, ReadCertificate, watch                               *)
(***************************************************************************)
\* the caller of the running ReadCertificate is New (else it is the loop)
InNew == newpc = "reading"

\* the environment may make a step of a refresh cycle fail
MayFail == InNew \/ fails < outage

\* ReadCertificate returns e
Return(e) ==
    /\ rc' = "ret"
    /\ err' = e

\* New: the struct is built and ReadCertificate is called
PollNew ==
    /\ variant = "poll" /\ newpc = "init"
    /\ newpc' = "reading"
    /\ rc' = "get"
    /\ cyc' = NoCycle
    /\ before' = currentCert
    /\ UNCHANGED << variant, cfg, now, nextKey, stop, currentCert, lock, loop,
                    rpc, got, cert, err, outage, pollVars,
                    fileVars >>

\* line 55: info, err := this.access.Get(this.logger)
PollGet ==
    /\ variant = "poll" /\ rc = "get"
    /\ \E ok \in BOOLEAN :
        /\ (~ok => MayFail)
        /\ cyc' = [cyc EXCEPT !.get = @ + 1,
                              !.fetched = IF ok THEN << store >> ELSE @]
        /\ IF ok THEN /\ info' = store
                      /\ rc' = "update"
                      /\ err' = err
                 ELSE /\ info' = info
                      /\ Return(TRUE)
    /\ UNCHANGED << variant, cfg, now, nextKey, stop, currentCert, lock, newpc,
                    loop, rpc, got, store, newInfo, cert, backoff, timerD,
                    timerArmed, timerC, fails, outage, before, lastSet,
                    fileVars >>

\* line 63: the bundle is written and loaded
NeedsSetAlways(same, cur) == TRUE
NeedsSet(same, cur) == ~same \/ cur = NilCert

\* lines 59-71: UpdateCertificate and the decision to write
PollUpdate ==
    /\ variant = "poll" /\ rc = "update"
    /\ \E rndOk \in BOOLEAN :
        /\ (~rndOk => MayFail)
        /\ LET r == UpdateCertificate(info, cfg, now, nextKey, rndOk)
           IN  /\ nextKey' = nextKey + r.used
               /\ cyc' = [cyc EXCEPT
                            !.changed = IF r.err THEN @
                                        ELSE IF r.same THEN "no" ELSE "yes",
                            !.peek = IF ~r.err /\ r.same THEN << lock >>
                                     ELSE @]
               /\ IF r.err
                  THEN /\ newInfo' = newInfo
                       /\ Return(TRUE)
                  ELSE /\ newInfo' = r.info
                       /\ IF NeedsSet(r.same, currentCert)
                          THEN /\ rc' = "set"
                               /\ err' = err
                          ELSE Return(FALSE)
    /\ UNCHANGED << variant, cfg, now, stop, currentCert, lock, newpc, loop,
                    rpc, got, store, info, cert, backoff, timerD, timerArmed,
                    timerC, fails, outage, before, lastSet,
                    fileVars >>

\* lines 64-68: err = this.access.Set(this.logger, new); info = new.
\* arg is the bundle handed to Set, onFail the value of currentCert after
\* a failed Set, and checked says that a failed Set ends the call.
PollSetBody(arg, onFail, checked) ==
    /\ variant = "poll" /\ rc = "set"
    /\ cyc' = [cyc EXCEPT !.set = @ + 1]
    /\ \E ok \in BOOLEAN :
        /\ (~ok => MayFail)
        /\ IF ok THEN /\ store' = arg
                      /\ lastSet' = arg
                      /\ info' = newInfo
                      /\ rc' = "parse"
                      /\ err' = err
                      /\ currentCert' = currentCert
                 ELSE /\ UNCHANGED << store, lastSet >>
                      /\ currentCert' = onFail
                      /\ IF checked
                         THEN /\ info' = info
                              /\ Return(TRUE)
                         ELSE /\ info' = newInfo
                              /\ rc' = "parse"
                              /\ err' = err
    /\ UNCHANGED << variant, cfg, now, nextKey, stop, lock, newpc, loop, rpc,
                    got, newInfo, cert, backoff, timerD, timerArmed, timerC,
                    fails, outage, before, fileVars >>

PollSetInstallsFirst ==
    PollSetBody(newInfo, TLSCert(newInfo.cert, newInfo.key), TRUE)
PollSetFetched == PollSetBody(info, currentCert, TRUE)
PollSetUnchecked == PollSetBody(newInfo, currentCert, FALSE)
PollSet == PollSetBody(newInfo, currentCert, TRUE)

\* lines 73-76: cert, err := tls.X509KeyPair(info.Cert(), info.Key())
PollParse ==
    /\ variant = "poll" /\ rc = "parse"
    /\ cyc' = [cyc EXCEPT !.parse = @ + 1]
    /\ IF X509KeyPair(info.cert, info.key)
       THEN /\ cert' = TLSCert(info.cert, info.key)
            /\ rc' = "lock"
            /\ err' = err
       ELSE /\ cert' = cert
            /\ Return(TRUE)
    /\ UNCHANGED << variant, cfg, now, nextKey, stop, currentCert, lock, newpc,
                    loop, rpc, got, outage, before, pollVars,
                    fileVars >>

\* line 77 (polling) and line 257 (file): the mutex is acquired; canEnter
\* says that Lock returns
RefreshLockBody(canEnter) ==
    /\ rc = "lock"
    /\ canEnter
    /\ lock' = "refresh"
    /\ cyc' = [cyc EXCEPT !.lock = @ + 1]
    /\ rc' = "swap"
    /\ UNCHANGED << variant, cfg, now, nextKey, stop, currentCert, newpc, loop,
                    rpc, got, cert, err, outage, before, pollVars,
                    fileVars >>

RefreshLockBarges == RefreshLockBody(TRUE)
RefreshLock == RefreshLockBody(lock = "free")

\* lines 78-80 (polling) and 258-263 (file): the certificate is installed,
\* the mutex released and nil returned
RefreshSwap ==
    /\ rc = "swap"
    /\ currentCert' = cert
    /\ lock' = "free"
    /\ Return(FALSE)
    /\ UNCHANGED << variant, cfg, now, nextKey, stop, newpc, loop, rpc, got,
                    cert, outage, cyc, before, pollVars,
                    fileVars >>

\* lines 95-98: the refresh interval
Interval(c) ==
    Minutes(IF c.Rest > TenMinutes THEN TenMinutes ELSE c.Rest)

\* lines 46-51: New after its ReadCertificate returned; on success start
\* spawns watch, which sets up backoff and the timer (lines 95-101).
\* failed is the test that makes New return the error.
PollNewReturnBody(failed) ==
    /\ variant = "poll" /\ newpc = "reading" /\ rc = "ret"
    /\ rc' = "idle"
    /\ newpc' = IF err THEN "failed" ELSE "returned"
    /\ IF failed
       THEN UNCHANGED << loop, backoff, timerD, timerArmed >>
       ELSE /\ loop' = "select"
            /\ backoff' = Second
            /\ timerD' = Interval(cfg)
            /\ timerArmed' = TRUE
    /\ UNCHANGED << variant, cfg, now, nextKey, stop, currentCert, lock, rpc,
                    got, store, info, newInfo, cert, err, timerC, fails,
                    outage, cyc, before, lastSet, fileVars >>

PollNewReturnStartsAnyway == PollNewReturnBody(FALSE)
PollNewReturn == PollNewReturnBody(err)

\* the runtime timer expires and sends on timer.C
TimerFire ==
    /\ variant = "poll" /\ timerArmed
    /\ nextKey + 2 <= MaxKeys
    /\ timerArmed' = FALSE
    /\ timerC' = TRUE
    /\ UNCHANGED << variant, cfg, now, nextKey, stop, currentCert, lock, newpc,
                    loop, rc, rpc, got, store, info, newInfo, cert, err,
                    backoff, timerD, fails, outage, cyc, before, lastSet,
                    fileVars >>

\* lines 104-106: case <-stop
WatchStop ==
    /\ variant = "poll" /\ loop = "select"
    /\ stop
    /\ timerArmed' = FALSE
    /\ loop' = "done"
    /\ UNCHANGED << variant, cfg, now, nextKey, stop, currentCert, lock, newpc,
                    rc, rpc, got, store, info, newInfo, cert, err, backoff,
                    timerD, timerC, fails, outage, cyc, before, lastSet,
                    fileVars >>

\* lines 107-114: case <-timer.C, up to the call of ReadCertificate
WatchTimer ==
    /\ variant = "poll" /\ loop = "select"
    /\ timerC
    /\ timerC' = FALSE
    /\ loop' = "reading"
    /\ rc' = "get"
    /\ cyc' = NoCycle
    /\ before' = currentCert
    /\ UNCHANGED << variant, cfg, now, nextKey, stop, currentCert, lock, newpc,
                    rpc, got, store, info, newInfo, cert, err, backoff, timerD,
                    timerArmed, fails, outage, lastSet,
                    fileVars >>

\* lines 115-122: the result of the cycle sets the next delay
WatchResult ==
    /\ variant = "poll" /\ loop = "reading" /\ rc = "ret"
    /\ rc' = "idle"
    /\ loop' = "select"
    /\ IF err
       THEN /\ timerD' = backoff
            /\ backoff' = NextBackoff(backoff)
            /\ fails' = fails + 1
       ELSE /\ timerD' = Interval(cfg)
            /\ backoff' = Second
            /\ fails' = 0
    /\ timerArmed' = TRUE
    /\ UNCHANGED << variant, cfg, now, nextKey, stop, currentCert, lock, newpc,
                    rpc, got, store, info, newInfo, cert, err, timerC, outage,
                    cyc, before, lastSet,
                    fileVars >>

(***************************************************************************)
(* CertWatcher: New, start, watch, handleEvent, ReadCertificate            *)
(***************************************************************************)
fileOther == << variant, cfg, now, nextKey, stop, rpc, got, outage, pollVars >>

\* the content of the file at a path
FileAt(path) == IF path = "certPath" THEN certFile ELSE keyFile

\* fsnotify.Event.Op is a set of operation bits
isWrite(event) == "Write" \in event.op
isCreate(event) == "Create" \in event.op
isRemove(event) == "Remove" \in event.op

\* line 268: the events that trigger a reload
TriggersOnWriteOnly(event) == isWrite(event)
Triggers(event) == isWrite(event) \/ isRemove(event) \/ isCreate(event)

\* New: the struct is built and ReadCertificate is called
FileNew ==
    /\ variant = "file" /\ newpc = "init"
    /\ newpc' = "reading"
    /\ rc' = "readcert"
    /\ cyc' = NoCycle
    /\ before' = currentCert
    /\ UNCHANGED << currentCert, lock, loop, cert, err, fileVars, fileOther >>

\* line 252, first half: tls.LoadX509KeyPair reads the certificate file
FileReadCert ==
    /\ variant = "file" /\ rc = "readcert"
    /\ IF certFile = NilBlob
       THEN /\ Return(TRUE)
            /\ certBytes' = certBytes
       ELSE /\ certBytes' = certFile
            /\ rc' = "readkey"
            /\ err' = err
    /\ UNCHANGED << currentCert, lock, newpc, loop, cert, cyc, before,
                    certFile, keyFile, watcher, watched, closed, events,
                    fileOther >>

\* lines 252-255, second half: the key file is read and the pair parsed.
\* onFail is the value of currentCert after a failed load.
FileReadKeyBody(onFail) ==
    /\ variant = "file" /\ rc = "readkey"
    /\ cyc' = [cyc EXCEPT !.parse = @ + 1,
                          !.read = << TLSCert(certBytes, keyFile) >>]
    /\ IF keyFile # NilBlob /\ X509KeyPair(certBytes, keyFile)
       THEN /\ cert' = TLSCert(certBytes, keyFile)
            /\ rc' = "lock"
            /\ err' = err
            /\ currentCert' = currentCert
       ELSE /\ cert' = cert
            /\ Return(TRUE)
            /\ currentCert' = onFail
    /\ UNCHANGED << lock, newpc, loop, before, fileVars, fileOther >>

FileReadKeyClears == FileReadKeyBody(NilCert)
FileReadKey == FileReadKeyBody(currentCert)

\* lines 184-186: New after the initial ReadCertificate returned
FileNewLoaded ==
    /\ variant = "file" /\ newpc = "reading" /\ rc = "ret"
    /\ rc' = "idle"
    /\ newpc' = IF err THEN "failed" ELSE "newwatcher"
    /\ UNCHANGED << currentCert, lock, loop, cert, err, cyc, before, fileVars,
                    fileOther >>

\* lines 188-191: cw.watcher, err = fsnotify.NewWatcher()
FileNewWatcher ==
    /\ variant = "file" /\ newpc = "newwatcher"
    /\ \E ok \in BOOLEAN :
        IF ok THEN /\ watcher' = TRUE
                   /\ newpc' = "addcert"
              ELSE /\ watcher' = watcher
                   /\ newpc' = "failed"
    /\ UNCHANGED << currentCert, lock, loop, rc, cert, err, cyc, before,
                    certFile, keyFile, certBytes, watched, closed, events,
                    fileOther >>

\* lines 209-215: this.watcher.Add(f) for one of the two files; after the
\* second one the event loop is started and start blocks on stopCh.  Add
\* fails when the file does not exist or the kernel refuses another watch;
\* start then returns the error, which New (line 193) drops before it
\* returns the watcher.
FileAdd ==
    /\ variant = "file" /\ newpc \in {"addcert", "addkey"}
    /\ LET f == IF newpc = "addcert" THEN "certPath" ELSE "keyPath"
       IN  \E ok \in BOOLEAN :
            /\ (ok => FileAt(f) # NilBlob)
            /\ IF ok
               THEN /\ watched' = watched \cup {f}
                    /\ newpc' = IF newpc = "addcert" THEN "addkey"
                                ELSE "blocked"
                    /\ loop' = IF newpc = "addcert" THEN loop ELSE "select"
               ELSE /\ watched' = watched
                    /\ newpc' = "returned"
                    /\ loop' = loop
    /\ UNCHANGED << currentCert, lock, rc, cert, err, cyc, before, certFile,
                    keyFile, certBytes, watcher, closed, events, fileOther >>

\* lines 220-222 and 195: stopCh is closed, start closes the fsnotify
\* watcher, which drops its watches and pending events, and New returns
FileStop ==
    /\ variant = "file" /\ newpc = "blocked"
    /\ stop
    /\ closed' = TRUE
    /\ watched' = {}
    /\ events' = << >>
    /\ newpc' = "returned"
    /\ UNCHANGED << currentCert, lock, loop, rc, cert, err, cyc, before,
                    certFile, keyFile, certBytes, watcher, fileOther >>

\* lines 229-235 and 266-284: an event is received and handled, up to the
\* call of ReadCertificate; a remove event re-adds the watch first
FileWatchEvent ==
    /\ variant = "file" /\ loop = "select"
    /\ events # << >>
    /\ LET event == Head(events)
       IN  /\ events' = Tail(events)
           /\ IF Triggers(event)
              THEN /\ watched' =
                        IF isRemove(event) /\ FileAt(event.name) # NilBlob
                        THEN watched \cup {event.name} ELSE watched
                   /\ loop' = "reading"
                   /\ rc' = "readcert"
                   /\ cyc' = NoCycle
                   /\ before' = currentCert
              ELSE UNCHANGED << watched, loop, rc, cyc, before >>
    /\ UNCHANGED << currentCert, lock, newpc, cert, err, certFile, keyFile,
                    certBytes, watcher, closed, fileOther >>

\* lines 281-283: handleEvent after ReadCertificate returned
FileHandled ==
    /\ variant = "file" /\ loop = "reading" /\ rc = "ret"
    /\ rc' = "idle"
    /\ loop' = "select"
    /\ UNCHANGED << currentCert, lock, newpc, cert, err, cyc, before,
                    fileVars, fileOther >>

\* lines 229-233: the Events channel is closed and watch returns
FileWatchClosed ==
    /\ variant = "file" /\ loop = "select"
    /\ closed
    /\ loop' = "done"
    /\ UNCHANGED << currentCert, lock, newpc, rc, cert, err, cyc, before,
                    fileVars, fileOther >>

\* the notification the kernel queues for an operation on a watched path
Notify(path, op) ==
    IF path \in watched /\ ~closed
    THEN Append(events, [name |-> path, op |-> {op}])
    ELSE events

Room == Len(events) < MaxEvents

\* another process rewrites a file
FsWrite ==
    /\ variant = "file" /\ Room
    /\ \E path \in Paths :
        /\ FileAt(path) # NilBlob
        /\ \E b \in (IF path = "certPath" THEN FileCerts ELSE FileKeys) :
            /\ b # FileAt(path)
            /\ certFile' = IF path = "certPath" THEN b ELSE certFile
            /\ keyFile' = IF path = "keyPath" THEN b ELSE keyFile
        /\ events' = Notify(path, "Write")
    /\ UNCHANGED << currentCert, lock, newpc, loop, rc, cert, err, cyc,
                    before, certBytes, watcher, watched, closed, fileOther >>

\* another process removes a file; the kernel drops the watch on it
FsRemove ==
    /\ variant = "file" /\ Room
    /\ \E path \in Paths :
        /\ FileAt(path) # NilBlob
        /\ certFile' = IF path = "certPath" THEN NilBlob ELSE certFile
        /\ keyFile' = IF path = "keyPath" THEN NilBlob ELSE keyFile
        /\ events' = Notify(path, "Remove")
        /\ watched' = watched \ {path}
    /\ UNCHANGED << currentCert, lock, newpc, loop, rc, cert, err, cyc,
                    before, certBytes, watcher, closed, fileOther >>

\* another process creates a missing file; no watch exists on the new file
FsCreate ==
    /\ variant = "file"
    /\ \E path \in Paths :
        /\ FileAt(path) = NilBlob
        /\ \E b \in (IF path = "certPath" THEN FileCerts ELSE FileKeys) :
            /\ certFile' = IF path = "certPath" THEN b ELSE certFile
            /\ keyFile' = IF path = "keyPath" THEN b ELSE keyFile
    /\ UNCHANGED << currentCert, lock, newpc, loop, rc, cert, err, cyc,
                    before, certBytes, watcher, watched, closed, events,
                    fileOther >>

\* another process changes the attributes of a file
FsChmod ==
    /\ variant = "file" /\ Room
    /\ \E path \in Paths :
        /\ FileAt(path) # NilBlob
        /\ path \in watched /\ ~closed
        /\ events' = Notify(path, "Chmod")
    /\ UNCHANGED << currentCert, lock, newpc, loop, rc, cert, err, cyc,
                    before, certFile, keyFile, certBytes, watcher, watched,
                    closed, fileOther >>

FileNext ==
    \/ FileNew \/ FileReadCert \/ FileReadKey \/ FileNewLoaded
    \/ FileNewWatcher \/ FileAdd \/ FileStop
    \/ FileWatchEvent \/ FileHandled \/ FileWatchClosed
    \/ FsWrite \/ FsRemove \/ FsCreate \/ FsChmod

(***************************************************************************)
(* GetCertificate (lines 84-88 and 199-203) and the environment            *)
(***************************************************************************)
\* this.lock.Lock() by a TLS handshake, possible once New has returned
GetLock ==
    /\ newpc = "returned" /\ rpc = "idle"
    /\ lock = "free"
    /\ lock' = "reader"
    /\ rpc' = "locked"
    /\ UNCHANGED << variant, cfg, now, nextKey, stop, currentCert, newpc, loop,
                    rc, got, cert, err, outage, cyc, before, pollVars,
                    fileVars >>

\* return this.currentCert, nil and the deferred Unlock
GetReturn ==
    /\ rpc = "locked"
    /\ got' = << currentCert >>
    /\ lock' = "free"
    /\ rpc' = "idle"
    /\ UNCHANGED << variant, cfg, now, nextKey, stop, currentCert, newpc, loop,
                    rc, cert, err, outage, cyc, before, pollVars,
                    fileVars >>

\* the context is cancelled
Cancel ==
    /\ ~stop
    /\ stop' = TRUE
    /\ UNCHANGED << variant, cfg, now, nextKey, currentCert, lock, newpc, loop,
                    rc, rpc, got, cert, err, outage, cyc, before, pollVars,
                    fileVars >>

\* a minute passes (only the certificate engine reads the clock)
Tick ==
    /\ variant = "poll"
    /\ now < MaxTime
    /\ now' = now + 1
    /\ UNCHANGED << variant, cfg, nextKey, stop, currentCert, lock, newpc,
                    loop, rc, rpc, got, cert, err, outage, cyc, before,
                    pollVars,
                    fileVars >>

vars == << variant, cfg, now, nextKey, stop, currentCert, lock, newpc, loop,
           rc, rpc, got, cert, err, outage, cyc, before, pollVars, fileVars >>

PollNext ==
    \/ PollNew \/ PollGet \/ PollUpdate \/ PollSet \/ PollParse
    \/ RefreshLock \/ RefreshSwap \/ PollNewReturn
    \/ TimerFire \/ WatchStop \/ WatchTimer \/ WatchResult

Init == InitPoll \/ InitFile

Next == PollNext \/ FileNext \/ GetLock \/ GetReturn \/ Cancel \/ Tick

Spec == Init /\ [][Next]_vars

\* A polling watcher whose store holds a good bundle and is then unreachable
\* for up to LongOutage refresh cycles in a row.
InitOutage ==
    /\ variant = "poll"
    /\ cfg = [CommonName |-> "svc", DnsNames |-> << "svc" >>,
              Rest |-> 60, Validity |-> 62]
    /\ store = Issued(cfg)
    /\ outage = LongOutage
    /\ InitCommon
    /\ InitNoFiles

OutageNext == PollNext \/ Cancel

SpecOutage == InitOutage /\ [][OutageNext]_vars


\* line 55 and 64: the store is shared; another holder of the same
\* CertificateAccess (a second replica) replaces the bundle by one it issued
StoreChanged ==
    /\ variant = "poll"
    /\ nextKey + 2 <= MaxKeys
    /\ LET r == UpdateCertificate(NilInfo, cfg, now, nextKey, TRUE)
       IN  /\ store' = r.info
           /\ nextKey' = nextKey + r.used
    /\ UNCHANGED << variant, cfg, now, stop, currentCert, lock, newpc, loop,
                    rc, rpc, got, info, newInfo, cert, err, backoff, timerD,
                    timerArmed, timerC, fails, outage, cyc, before, lastSet,
                    fileVars >>

SharedNext ==
    PollNext \/ GetLock \/ GetReturn \/ Cancel \/ Tick \/ StoreChanged

\* a polling watcher on a store that another replica writes too
SpecShared == InitPoll /\ [][SharedNext]_vars

(***************************************************************************)
(* The certificate engine on its own: UpdateCertificate applied to bundles *)
(* a previous run left behind and to its own results                       *)
(***************************************************************************)
\* the same bundle with a CA that expires a minute after the five days
ExpiringCA(b) == [b EXCEPT !.cacert.na = FiveDays + 1]
\* the same bundle without its CA
NoCA(b) == [b EXCEPT !.cacert = NilBlob, !.cakey = NilBlob]

EngineInputs(c) ==
    InitStores(c) \cup
    {ExpiringCA(Issued(c)), ExpiringCA(Stale(Issued(c))),
     NoCA(Stale(Issued(c)))}

InitEngine ==
    /\ variant = "engine"
    /\ cfg \in Configs
    /\ store = NilInfo
    /\ outage = 0
    /\ InitCommon
    /\ InitNoFiles

engineOther ==
    << variant, cfg, stop, currentCert, lock, newpc, loop, rpc, got, store,
       cert, backoff, timerD, timerArmed, timerC, fails, outage, before,
       lastSet, fileVars >>

\* the caller holds a bundle of an earlier run instead of none
EnginePick ==
    /\ variant = "engine" /\ rc = "idle"
    /\ info' \in EngineInputs(cfg) \ {NilInfo}
    /\ rc' = "call"
    /\ UNCHANGED << now, nextKey, newInfo, err, cyc, engineOther >>

\* new, err := UpdateCertificate(info, cfg).  rc is "again" when info is
\* the result of the previous call and no time has passed since.
EngineCall ==
    /\ variant = "engine" /\ rc \in {"idle", "call", "again"}
    /\ nextKey + 2 <= MaxKeys
    /\ \E rndOk \in BOOLEAN :
        LET r == UpdateCertificate(info, cfg, now, nextKey, rndOk)
        IN  /\ nextKey' = nextKey + r.used
            /\ err' = r.err
            /\ newInfo' = IF r.err THEN NilInfo ELSE r.info
            /\ cyc' = [NoCycle EXCEPT
                         !.fetched = << info >>,
                         !.changed = IF r.err THEN "unknown"
                                     ELSE IF r.same THEN "no" ELSE "yes"]
    /\ rc' = "ret"
    /\ UNCHANGED << now, info, engineOther >>

\* the caller passes the result to the next call
EngineFeed ==
    /\ variant = "engine" /\ rc = "ret" /\ ~err
    /\ info' = newInfo
    /\ rc' = "again"
    /\ UNCHANGED << now, nextKey, newInfo, err, cyc, engineOther >>

\* a minute passes between two calls
EngineTick ==
    /\ variant = "engine" /\ rc \in {"idle", "call", "again"}
    /\ now < MaxTime
    /\ now' = now + 1
    /\ rc' = IF rc = "again" THEN "call" ELSE rc
    /\ UNCHANGED << nextKey, info, newInfo, err, cyc, engineOther >>

EngineNext == EnginePick \/ EngineCall \/ EngineFeed \/ EngineTick

SpecEngine == InitEngine /\ [][EngineNext]_vars

(***************************************************************************)
(* Properties                                                              *)
(***************************************************************************)
\* a loaded certificate whose certificate and key are one matching pair
Matching(c) ==
    c.cert.t = "cert" /\ c.key.t = "key" /\ c.cert.id = c.key.id

\* a background refresh cycle of the polling watcher has just returned
PollCycleEnded == variant = "poll" /\ loop = "reading" /\ rc = "ret"

\* a reload of the file watcher's event loop has just returned
FileReloadEnded == variant = "file" /\ loop = "reading" /\ rc = "ret"

\* C1: when a background refresh cycle of the polling watcher has failed,
\* currentCert is what it was when the cycle started, and it is a loaded
\* certificate, so GetCertificate keeps returning the last good one.
C1_FailedCycleKeepsCert ==
    (PollCycleEnded /\ err) => (currentCert = before /\ currentCert # NilCert)

\* a cycle failed at Set, after UpdateCertificate had made a new bundle
C1_Witness ==
    /\ PollCycleEnded /\ err
    /\ cyc.set = 1 /\ cyc.changed = "yes"
    /\ currentCert # NilCert

\* C2: when a reload triggered by a filesystem event has failed, currentCert
\* is the matching pair it was before the reload, and the event loop goes
\* on: from there it only moves back to its select.
C2_FailedReloadKeepsCert ==
    /\ [](FileReloadEnded /\ err =>
            currentCert = before /\ Matching(currentCert))
    /\ [][FileReloadEnded /\ err => loop' \in {"reading", "select"}]_vars

\* a later event is being handled after a reload that failed
C2_Witness ==
    /\ variant = "file" /\ loop = "reading" /\ rc = "readcert"
    /\ err
    /\ Matching(currentCert)

\* C3: once New has returned a watcher (of either variant), currentCert is a
\* matching pair that was parsed together, and so is everything that
\* GetCertificate has returned.
C3_AlwaysLoadedPair ==
    /\ newpc = "returned" => Matching(currentCert)
    /\ got # << >> => Matching(got[1])

\* GetCertificate has returned a certificate other than the current one
\* while a refresh holds the lock to install a third
C3_Witness ==
    /\ got # << >> /\ got[1] # currentCert
    /\ rc = "swap" /\ cert # currentCert
    /\ stop

\* C4: in a cycle of the polling watcher in which UpdateCertificate returned
\* its argument while a certificate was loaded, there is no Set, no parse
\* and no Lock, currentCert stays as it was and the cycle returns nil.
C4_UnchangedCycleDoesNothing ==
    (variant = "poll" /\ cyc.changed = "no" /\ before # NilCert) =>
        /\ rc \in {"ret", "idle"}
        /\ cyc.set = 0 /\ cyc.parse = 0 /\ cyc.lock = 0
        /\ currentCert = before
        /\ ~err

\* such a cycle has ended
C4_Witness ==
    /\ PollCycleEnded
    /\ cyc.changed = "no" /\ before # NilCert
    /\ cyc.get = 1

\* a non-negative 64 bit duration widened to five limbs, and one and a
\* half times a widened duration, rounded down to a whole nanosecond: the
\* exact values, free of the 64 bit width
Wide(d) == d \o << 0 >>
OneAndAHalfTimes(x) == Shr1(MulSmall(x, 3, 0))

\* C5: the delay the polling loop schedules after a failed cycle is 1 s
\* when the cycle before it succeeded (or was the construction) and 1.5
\* times the previous delay otherwise, that is 1 s * 1.5^(k-1) after the
\* k-th consecutive failure (at the nanosecond resolution of a duration);
\* after a successful cycle the delay is min(Rest, 10 minutes) and the
\* back-off is 1 s again.
C5_BackoffSchedule ==
    [][(variant = "poll" /\ loop = "reading" /\ loop' = "select") =>
          IF ~err
          THEN timerD' = Interval(cfg) /\ backoff' = Second
          ELSE IF fails = 0
          THEN timerD' = Second
          ELSE /\ ~IsNeg(timerD')
               /\ Wide(timerD') = OneAndAHalfTimes(Wide(timerD))]_vars

\* C6: if the initial refresh of the polling watcher fails, New returns the
\* error, no loop and no timer exist and no Get or Set is made afterwards;
\* if it succeeds the watcher is returned with a loaded certificate and its
\* loop started.
C6_ConstructionAllOrNothing ==
    /\ [](variant = "poll" =>
            /\ newpc = "failed" =>
                 loop = "none" /\ rc = "idle" /\ ~timerArmed /\ ~timerC
            /\ newpc = "returned" =>
                 loop # "none" /\ currentCert # NilCert
            /\ loop # "none" => newpc = "returned")
    /\ [][variant = "poll" /\ newpc = "failed" =>
            cyc' = cyc /\ store' = store /\ newpc' = "failed"]_vars

\* New has failed at Set, after the context was cancelled
C6_Witness ==
    /\ variant = "poll" /\ newpc = "failed"
    /\ cyc.set = 1
    /\ stop

\* all four fields of a bundle hold a certificate or a key
Populated(b) ==
    /\ b.cert.t = "cert" /\ b.key.t = "key"
    /\ b.cacert.t = "cert" /\ b.cakey.t = "key"

\* New of the polling watcher has succeeded on a store that had no bundle,
\* and no refresh cycle has run since
BuiltOnEmptyStore ==
    /\ variant = "poll"
    /\ \/ newpc = "reading" /\ rc = "ret" /\ ~err
       \/ newpc = "returned"
    /\ cyc.fetched = << NilInfo >>

\* C7: a polling watcher built on an empty store has made exactly one Set,
\* with a bundle whose four fields are populated, and has a certificate
\* loaded when New returns.
C7_EmptyStoreConstruction ==
    BuiltOnEmptyStore =>
        /\ cyc.set = 1
        /\ Populated(lastSet) /\ store = lastSet
        /\ currentCert # NilCert
        /\ currentCert = TLSCert(lastSet.cert, lastSet.key)

\* GetCertificate has returned right after such a construction
C7_Witness ==
    /\ BuiltOnEmptyStore /\ newpc = "returned"
    /\ got = << currentCert >>

\* C8: once the cancellation signal is raised the polling loop starts no
\* new refresh cycle, also when the timer is already due.
C8_NoCycleAfterStop ==
    [][variant = "poll" /\ stop /\ loop = "select" => loop' # "reading"]_vars

\* C9: when New of the file watcher returns after both paths were subscribed
\* and the event loop was started, the cancellation signal has not been
\* needed and the subscription is open.
C9_NewReturnsActive ==
    [][variant = "file" /\ newpc = "blocked" /\ newpc' = "returned" =>
        ~stop /\ ~closed']_vars

\* C10: New of the file watcher returns a watcher only if it has started the
\* event loop after subscribing to both paths; a failed load, NewWatcher or
\* Add makes it return the error.
C10_NoPartialWatcher ==
    (variant = "file" /\ newpc = "returned") => loop # "none"


\* the file watcher is Active and at rest: both paths were subscribed, the
\* event loop waits in its select and no notification is pending
FileAtRest ==
    /\ variant = "file" /\ newpc = "blocked" /\ ~stop
    /\ loop = "select" /\ rc = "idle"
    /\ events = << >>

\* C11: however deletion, recreation and event handling interleave, once the
\* removal has been handled and the file exists again the watcher has a
\* watch on its path, so that a later write is notified.
C11_RewatchedAfterRecreate ==
    FileAtRest => \A path \in Paths : FileAt(path) # NilBlob => path \in watched

\* the event loop takes one notification from the Events channel
EventTaken ==
    /\ variant = "file" /\ loop = "select" /\ events # << >>
    /\ events' = Tail(events) /\ closed' = closed

\* a write, create or remove notification
ReloadKind(event) == event.op \cap {"Write", "Create", "Remove"} # {}

FileProgram ==
    \/ FileNew \/ FileReadCert \/ FileReadKey \/ FileNewLoaded
    \/ FileNewWatcher \/ FileAdd \/ FileStop
    \/ FileWatchEvent \/ FileHandled \/ FileWatchClosed
    \/ RefreshLock \/ RefreshSwap \/ GetReturn

\* C13: once the context is cancelled and the file watcher's threads have
\* run as far as they can, the fsnotify watcher, if one was created, is
\* closed and the event loop, if it was started, has returned; and after
\* the event loop has returned nothing reloads or replaces currentCert.
C13_CancelReleases ==
    /\ (variant = "file" /\ stop /\ ~ENABLED FileProgram) =>
            /\ watcher => closed
            /\ loop \in {"none", "done"}
    /\ (variant = "file" /\ loop = "done") => rc = "idle"

\* all four fields of a bundle hold a parsable blob of the right kind
AllFour(b) ==
    /\ ~b.isnil
    /\ b.cert.t = "cert" /\ b.key.t = "key"
    /\ b.cacert.t = "cert" /\ b.cakey.t = "key"

\* the call of UpdateCertificate that just returned was given no bundle
EngineNilCallEnded ==
    variant = "engine" /\ rc = "ret" /\ cyc.fetched = << NilInfo >>

\* the call that is about to return was given, at once, the result of a call
\* without a bundle
EngineRefed ==
    /\ variant = "engine" /\ rc = "again" /\ rc' = "ret"
    /\ cyc.fetched = << NilInfo >>

\* C14 as stated: a call without a previous bundle that returns a bundle
\* returns a populated one and a change, and the next call, given that
\* bundle at once, returns the same bundle and no change, whatever Validity
\* and Rest are.
C14_FreshIssueIdempotent ==
    /\ [](EngineNilCallEnded /\ ~err =>
            AllFour(newInfo) /\ cyc.changed = "yes")
    /\ [][EngineRefed =>
            ~err' /\ newInfo' = info /\ cyc'.changed = "no"]_vars

\* C14 amended: the same for the policies whose Rest is below Validity.
C14_FreshIssueIdempotentAmended ==
    /\ [](EngineNilCallEnded /\ ~err =>
            AllFour(newInfo) /\ cyc.changed = "yes")
    /\ [][EngineRefed /\ cfg.Rest < cfg.Validity =>
            ~err' /\ newInfo' = info /\ cyc'.changed = "no"]_vars

\* the second of the two calls has returned the bundle the first one made
C14_Witness ==
    /\ variant = "engine" /\ rc = "ret" /\ ~err
    /\ cyc.fetched = << newInfo >> /\ cyc.changed = "no"
    /\ AllFour(newInfo) /\ newInfo.cacert.nb = now
    /\ nextKey = 4 /\ cfg.Rest < cfg.Validity

\* the CA of bundle b is a matching pair that parses and is within its
\* validity five days after time t
CAAcceptable(b, t) ==
    /\ b.cacert.t = "cert" /\ b.cakey.t = "key"
    /\ b.cakey.id = b.cacert.id
    /\ b.cacert.nb <= t + FiveDays /\ t + FiveDays <= b.cacert.na

\* a call of UpdateCertificate has returned a bundle for an old bundle whose
\* server certificate was not valid
EngineReissued ==
    /\ variant = "engine" /\ rc = "ret" /\ ~err
    /\ cyc.fetched # << >>
    /\ ~IsValid(cyc.fetched[1], cfg.DnsNames[1], cfg.Rest, now)

\* C15: when UpdateCertificate replaces an invalid server certificate, the
\* result carries the old CA certificate and CA key unchanged if that CA is
\* acceptable (only the server key and certificate are new), and a new CA
\* pair together with a new server pair signed by it otherwise.
C15_CAReusedOrReplaced ==
    EngineReissued =>
        LET old == cyc.fetched[1]
        IN  /\ AllFour(newInfo)
            /\ newInfo.key # old.key /\ newInfo.cert # old.cert
            /\ newInfo.cert.id = newInfo.key.id
            /\ newInfo.cert.by = newInfo.cacert.id
            /\ IF CAAcceptable(old, now)
               THEN newInfo.cacert = old.cacert /\ newInfo.cakey = old.cakey
               ELSE /\ newInfo.cacert # old.cacert
                    /\ newInfo.cakey # old.cakey
                    /\ newInfo.cakey.id = newInfo.cacert.id
                    /\ newInfo.cacert.nb = now

\* a bundle with an expired server certificate and an unparsable CA key was
\* given a new CA and a new server pair
C15_Witness ==
    /\ EngineReissued
    /\ cyc.fetched[1].cakey = BadBlob /\ cyc.fetched[1].cacert.t = "cert"
    /\ newInfo.cacert # cyc.fetched[1].cacert
    /\ newInfo.cert.by = newInfo.cacert.id

\* C16: the polling watcher replaces currentCert only in a call in which
\* Set was called once and succeeded for the bundle the new certificate is
\* parsed from, which is then the bundle this watcher wrote last; a call
\* whose Set failed ends with currentCert as it was.
C16_SwapAfterSet ==
    /\ [][variant = "poll" /\ currentCert' # currentCert =>
            /\ cyc.set = 1 /\ lastSet = newInfo /\ store = lastSet
            /\ currentCert' = TLSCert(lastSet.cert, lastSet.key)]_vars
    /\ [](variant = "poll" /\ rc = "ret" /\ cyc.set = 1 /\ lastSet # newInfo =>
            err /\ currentCert = before)

\* a background cycle has replaced a loaded certificate by the one it wrote
C16_Witness ==
    /\ PollCycleEnded /\ ~err
    /\ before # NilCert /\ currentCert # before
    /\ cyc.set = 1 /\ store = lastSet
    /\ currentCert = TLSCert(lastSet.cert, lastSet.key)

\* GetCertificate reads currentCert, and the refresh path writes it, as the
\* holder of the mutex
LockedAccess ==
    /\ rpc = "locked" => lock = "reader"
    /\ rc = "swap" => lock = "refresh"

\* C17 as stated: every read and every write of currentCert, also those of
\* the refresh path, is made by the holder of the mutex.
C17_AllAccessLocked ==
    /\ LockedAccess
    /\ cyc.peek # << >> => cyc.peek[1] = "refresh"

\* C17 amended: GetCertificate's read and the refresh path's write are made
\* by the holder of the mutex, so neither happens during the other; the
\* refresh path's own read at line 63 is made without the mutex, by the one
\* thread that writes, hence never while a write is under way.
C17_WritesAndGetLocked ==
    /\ LockedAccess
    /\ ~(rpc = "locked" /\ rc = "swap")
    /\ cyc.peek # << >> => cyc.peek[1] # "refresh"

\* a refresh cycle has read currentCert at line 63 while a GetCertificate
\* call held the mutex
C17_Witness ==
    /\ variant = "poll" /\ rc = "ret"
    /\ cyc.peek = << "reader" >>
    /\ rpc = "locked" /\ lock = "reader"

\* a ReadCertificate call of the polling watcher has returned nil
PollCallSucceeded ==
    variant = "poll" /\ rc = "ret" /\ ~err /\ cyc.get = 1

\* C18: when a ReadCertificate call of the polling watcher has succeeded,
\* currentCert is the pair of the bundle the call wrote to the store, or,
\* when it wrote none, of the bundle it fetched.
C18_SuccessLoadsFetched ==
    PollCallSucceeded =>
        /\ cyc.fetched # << >>
        /\ LET b == IF cyc.set = 1 THEN lastSet ELSE cyc.fetched[1]
           IN  currentCert = TLSCert(b.cert, b.key)

\* C19: when the file watcher is at rest (subscribed, waiting in its select,
\* no notification pending) and the two files hold a matching pair,
\* currentCert is that pair: no change of the files has been missed, also
\* none made between the initial load and the subscription.
C19_MemoryFollowsDisk ==
    (FileAtRest /\ Matching(TLSCert(certFile, keyFile))) =>
        currentCert = TLSCert(certFile, keyFile)

\* a duration above zero, and the order of two durations that are not
\* negative (limb 4 is the most significant)
Positive(d) == ~IsNeg(d) /\ d # Zero64
Less(a, b) ==
    \E i \in 1..4 : a[i] < b[i] /\ \A j \in (i + 1)..4 : a[j] = b[j]

\* C20: after every failed cycle of the polling loop the delay scheduled
\* and the new back-off are above zero and the new back-off is above the
\* old one, however many cycles have failed in a row.
C20_BackoffGrows ==
    [][(variant = "poll" /\ loop = "reading" /\ loop' = "select" /\ err) =>
          /\ Positive(timerD')
          /\ Positive(backoff') /\ Less(backoff, backoff')]_vars

====
